---- MODULE Spec2Model ----
(***************************************************************************)
(* Model of app.py: the transcript acquisition chain (get_transcript and   *)
(* its four strategies) and the summarization routes (set_api_key,         *)
(* /summarize, /get_transcript with summarize_with_ai).                    *)
(*                                                                         *)
(* A text is a sequence of one-character strings; a fixed message of the   *)
(* program is kept as one element.  Python's None is the value None below, *)
(* which is no text a track can have.                                      *)
(***************************************************************************)
EXTENDS Integers, Sequences, FiniteSets, TLC

VARIABLES
    tracks,      \* the caption tracks of the requested video, in backend order
    lang_code,   \* get_transcript's lang_code argument (None when not given)
    pc,          \* position of the handler
    checked,     \* what check_video_availability reported to get_transcript
    invoked,     \* the strategies invoked so far by get_transcript, in order
    reports,     \* what each invoked strategy handed back (None: not available)
    transcript,  \* the value get_transcript returned (None while it runs)
    session,     \* the session: the API key stored for each service name
    route,       \* the route being served ("none": get_transcript called alone)
    service,     \* the service the request selects
    calls,       \* the provider calls made for the request, in order
    pending,     \* the provider call in flight, if any
    elapsed,     \* time units the handler has spent waiting for the provider
    outcome,     \* how the last provider call of the request ended
    response,    \* the response of the route
    raised,      \* for each invoked strategy, whether an exception was raised in it
    api_trace,   \* what the Data API strategy read and called, until the next
                 \* strategy is invoked
    languages,   \* what get_available_languages returned
    scrape,      \* extract_captions_from_video_page called alone: the page it
                 \* fetched and what it returned
    config,      \* the process-wide configuration of the provider libraries
    threads      \* summarize_with_ai running in concurrent request threads

acqVars == <<tracks, lang_code, checked, invoked, reports, transcript, raised, api_trace>>
sumVars == <<service, calls, pending, elapsed, outcome>>
auxVars == <<languages, scrape, config, threads>>
vars == <<tracks, lang_code, pc, checked, invoked, reports, transcript, session, route,
          service, calls, pending, elapsed, outcome, response, raised, api_trace,
          languages, scrape, config, threads>>

(***************************************************************************)
(* Bounds of the model.                                                    *)
(***************************************************************************)
MaxTracks == 2
\* the deadline a caller would wait for a summary, in time units
Deadline == 2
\* the length above which a transcript would count as oversized
Ceiling == 3

\* the marker a truncated transcript would end with
TruncationMarker == <<".", ".", ".">>

None == <<"None">>

(***************************************************************************)
(* Texts.                                                                  *)
(***************************************************************************)
Str_Error == <<"E", "r", "r", "o", "r", ":">>

IsWhitespace(c) == c \in {" ", "\n"}

RECURSIVE LStrip(_)
LStrip(s) ==
    IF s # <<>> /\ IsWhitespace(Head(s)) THEN LStrip(Tail(s)) ELSE s

RECURSIVE RStrip(_)
RStrip(s) ==
    IF s # <<>> /\ IsWhitespace(s[Len(s)])
    THEN RStrip(SubSeq(s, 1, Len(s) - 1))
    ELSE s

\* str.strip()
Strip(s) == RStrip(LStrip(s))

\* sep.join(parts)
RECURSIVE Join(_, _)
Join(parts, sep) ==
    IF parts = <<>> THEN <<>>
    ELSE IF Len(parts) = 1 THEN parts[1]
    ELSE parts[1] \o sep \o Join(Tail(parts), sep)

\* str.startswith(prefix)
StartsWith(s, prefix) ==
    /\ Len(s) >= Len(prefix)
    /\ SubSeq(s, 1, Len(prefix)) = prefix

\* Python truthiness of a str-or-None value
Truthy(x) == x # None /\ x # <<>>

(***************************************************************************)
(* The videos a request can name.  A track is its language code, its       *)
(* origin (manual or asr) and its timed segments' texts.  The transcript   *)
(* listing and pytube key tracks by code within an origin, so no two       *)
(* tracks of a video share both.                                           *)
(***************************************************************************)
\* a language code is its subtags: "fr-CA" is <<"fr", "CA">>
LanguageCodes == { <<"en">>, <<"es">>, <<"fr", "CA">> }

TrackKinds == {"manual", "asr"}

Seg_a == <<"a", " ">>
Seg_b == <<"b">>

SegmentLists == { <<>>, <<Seg_a>>, <<Str_Error, Seg_b>> }

Tracks == [languageCode : LanguageCodes, kind : TrackKinds, segments : SegmentLists]

TrackLists ==
    UNION { [1..n -> Tracks] : n \in 0..MaxTracks }

Videos ==
    { v \in TrackLists :
        \A i, j \in 1..Len(v) :
            (v[i].languageCode = v[j].languageCode /\ v[i].kind = v[j].kind) => i = j }

\* the language a caller can ask for: none, a listed code, or one no track has
RequestLanguages == {None, <<"en">>, <<"es">>, <<"fr">>, <<"fr", "CA">>}

(***************************************************************************)
(* Subtitle-timed (SRT) documents and their clean-up to plain text.  The   *)
(* character "#" stands for one cue header: the index line and the timing  *)
(* line that the regular expression of the clean-up matches.               *)
(***************************************************************************)
SrtCue(text) == <<"#">> \o text \o <<"\n">>

\* the SRT document of a track: one cue per segment, a blank line between cues
generate_srt_captions(track) ==
    Strip(Join([i \in 1..Len(track.segments) |-> SrtCue(track.segments[i])], <<"\n">>))

\* re.sub(r'\d+\n\d{2}:\d{2}:\d{2},\d{3} --> ...\n', '', srt)
RECURSIVE RemoveCueHeaders(_)
RemoveCueHeaders(s) ==
    IF s = <<>> THEN <<>>
    ELSE IF Head(s) = "#" THEN RemoveCueHeaders(Tail(s))
    ELSE <<Head(s)>> \o RemoveCueHeaders(Tail(s))

\* str.replace('\n\n', ' ')
RECURSIVE ReplaceBlankLines(_)
ReplaceBlankLines(s) ==
    IF Len(s) >= 2 /\ s[1] = "\n" /\ s[2] = "\n"
    THEN <<" ">> \o ReplaceBlankLines(SubSeq(s, 3, Len(s)))
    ELSE IF s = <<>> THEN <<>>
    ELSE <<Head(s)>> \o ReplaceBlankLines(Tail(s))

CleanSrt(srt) == Strip(ReplaceBlankLines(RemoveCueHeaders(srt)))

\* TextFormatter().format_transcript(segments): the segment texts, one per line
format_transcript(segments) == Join(segments, <<"\n">>)

\* the members of a sequence that satisfy a test, in order
RECURSIVE SelectTracks(_, _)
SelectTracks(ts, kind) ==
    IF ts = <<>> THEN <<>>
    ELSE IF Head(ts).kind = kind THEN <<Head(ts)>> \o SelectTracks(Tail(ts), kind)
    ELSE SelectTracks(Tail(ts), kind)

(***************************************************************************)
(* Strategy 1: the YouTube Data API.  resp is what the backend answers:    *)
(* whether the credential is configured and how each call ends.            *)
(***************************************************************************)
YouTubeApiResponses ==
    {"no_api_key", "http_error", "video_not_found", "caption_flag_false",
     "download_error", "ok"}

\* a strategy that hands the message of an HttpError back as its result
get_transcript_youtube_api_Surfaces(ts, resp) ==
    IF resp = "no_api_key" THEN None
    ELSE IF resp = "http_error" THEN Str_Error \o <<" ">> \o <<resp>>
    ELSE IF resp = "video_not_found" THEN None
    ELSE IF resp = "caption_flag_false" THEN None
    ELSE IF ts = <<>> THEN None
    ELSE IF resp = "download_error" THEN Str_Error \o <<" ">> \o <<resp>>
    ELSE CleanSrt(generate_srt_captions(ts[1]))

get_transcript_youtube_api(ts, resp) ==
    IF resp = "no_api_key" THEN None
    ELSE IF resp = "http_error" THEN None
    ELSE IF resp = "video_not_found" THEN None
    ELSE IF resp = "caption_flag_false" THEN None
    ELSE IF ts = <<>> THEN None
    ELSE IF resp = "download_error" THEN None
    ELSE CleanSrt(generate_srt_captions(ts[1]))

\* whether an exception was raised inside get_transcript_youtube_api
YouTubeApiRaises(ts, resp) ==
    resp = "http_error" \/ (resp = "download_error" /\ ts # <<>>)

Step(call, result) == [call |-> call, result |-> result]

\* a strategy that lists the caption tracks without looking at the caption flag
YouTubeApiTrace_SkipsFlag(ts, resp) ==
    IF resp = "no_api_key" THEN <<Step("getenv", "absent")>>
    ELSE <<Step("getenv", "present")>> \o
         (IF resp = "http_error" THEN <<Step("videos.list", "http_error")>>
          ELSE IF resp = "video_not_found" THEN <<Step("videos.list", "no_items")>>
          ELSE <<Step("videos.list",
                      IF resp = "caption_flag_false" THEN "caption_false"
                      ELSE "caption_true")>> \o
               (IF ts = <<>> THEN <<Step("captions.list", "no_items")>>
                ELSE <<Step("captions.list", "items"),
                       Step("captions.download",
                            IF resp = "download_error" THEN "http_error" ELSE "srt")>>))

\* what get_transcript_youtube_api reads from the environment and asks of the
\* backend, call by call, with what each gave
YouTubeApiTrace(ts, resp) ==
    IF resp = "no_api_key" THEN <<Step("getenv", "absent")>>
    ELSE <<Step("getenv", "present")>> \o
         (IF resp = "http_error" THEN <<Step("videos.list", "http_error")>>
          ELSE IF resp = "video_not_found" THEN <<Step("videos.list", "no_items")>>
          ELSE IF resp = "caption_flag_false"
               THEN <<Step("videos.list", "caption_false")>>
          ELSE <<Step("videos.list", "caption_true")>> \o
               (IF ts = <<>> THEN <<Step("captions.list", "no_items")>>
                ELSE <<Step("captions.list", "items"),
                       Step("captions.download",
                            IF resp = "download_error" THEN "http_error" ELSE "srt")>>))

(***************************************************************************)
(* Strategy 2: the transcript listing.  The value is what get_transcript   *)
(* returns from inside this block, None when it falls through.             *)
(***************************************************************************)
TranscriptApiResponses == {"list_raises", "fetch_raises", "ok"}

\* index of the first generated transcript whose code is lang, 0 if none
FirstWithCode(ts, lang) ==
    IF \E i \in 1..Len(ts) : ts[i].languageCode = lang
    THEN CHOOSE i \in 1..Len(ts) :
            /\ ts[i].languageCode = lang
            /\ \A j \in 1..(i - 1) : ts[j].languageCode # lang
    ELSE 0

\* a listing that takes the first track of any origin
transcript_api_block_AnyOrigin(ts, lang, resp) ==
    LET m == FirstWithCode(ts, lang)
    IN  IF resp = "list_raises" THEN None
        ELSE IF ts = <<>> THEN None
        ELSE IF resp = "fetch_raises" THEN None
        ELSE IF lang # None /\ m # 0 THEN format_transcript(ts[m].segments)
        ELSE format_transcript(ts[1].segments)

transcript_api_block(ts, lang, resp) ==
    LET generated_transcripts == SelectTracks(ts, "asr")
        m == FirstWithCode(generated_transcripts, lang)
    IN  IF resp = "list_raises" THEN None
        ELSE IF generated_transcripts = <<>> THEN None
        ELSE IF resp = "fetch_raises" THEN None
        ELSE IF lang # None /\ m # 0
             THEN format_transcript(generated_transcripts[m].segments)
        ELSE format_transcript(generated_transcripts[1].segments)

\* whether an exception was raised inside the block of the transcript listing
TranscriptApiRaises(ts, resp) ==
    resp = "list_raises" \/ (resp = "fetch_raises" /\ SelectTracks(ts, "asr") # <<>>)

(***************************************************************************)
(* Strategy 3: pytube.  Its captions are keyed by caption code: the        *)
(* language code for a manual track, "a." and the code for a generated one.*)
(***************************************************************************)
PytubeResponses == {"raises", "srt_raises", "ok"}

\* captions.get('en', next(iter(captions.values())))
PytubeCaption(ts) ==
    IF \E i \in 1..Len(ts) : ts[i].kind = "manual" /\ ts[i].languageCode = <<"en">>
    THEN CHOOSE t \in {ts[i] : i \in 1..Len(ts)} :
            t.kind = "manual" /\ t.languageCode = <<"en">>
    ELSE ts[1]

get_transcript_pytube(ts, resp) ==
    IF resp = "raises" THEN None
    ELSE IF ts = <<>> THEN None
    ELSE IF resp = "srt_raises" THEN None
    ELSE CleanSrt(generate_srt_captions(PytubeCaption(ts)))

\* whether an exception was raised inside get_transcript_pytube
PytubeRaises(ts, resp) ==
    resp = "raises" \/ (resp = "srt_raises" /\ ts # <<>>)

(***************************************************************************)
(* Strategy 4: scraping the watch page.  A page is what each of the three  *)
(* regular expressions finds in it, in the order they are tried:           *)
(*   1. "captions":({[^}]+})       an object without a nested object       *)
(*   2. {"captionTracks":(\[.*?\])} the bare array of tracks               *)
(*   3. "playerCaptionsTracklistRenderer":({.*?})\}  an object             *)
(* Where a page carries tracks, they are the video's tracks.               *)
(***************************************************************************)
PatternFinds ==
    << {"no_match", "bad_json", "empty", "flat_object"},
       {"no_match", "bad_json", "empty", "track_array"},
       {"no_match", "bad_json", "empty", "flat_object", "tracks_object",
        "renderer_object"} >>

Pages ==
    { p \in [1..3 -> UNION {PatternFinds[i] : i \in 1..3}] :
        \A i \in 1..3 : p[i] \in PatternFinds[i] }

\* the for loop over patterns: the first match that parses as JSON
RECURSIVE CaptionData(_, _)
CaptionData(page, i) ==
    IF i > Len(page) THEN "no_match"
    ELSE IF page[i] \in {"no_match", "bad_json"} THEN CaptionData(page, i + 1)
    ELSE page[i]

\* caption_tracks of the parsed caption_data
CaptionTracks(caption_data, ts) ==
    IF caption_data = "tracks_object" THEN ts
    ELSE IF caption_data = "renderer_object" THEN ts
    ELSE <<>>

\* track.get('languageCode', '').split('-')[0]
TrackLang(track) == <<Head(track.languageCode)>>

\* the first of target_tracks whose base language is lang_code, 0 if none
FirstWithLang(ts, lang) ==
    IF \E i \in 1..Len(ts) : TrackLang(ts[i]) = lang
    THEN CHOOSE i \in 1..Len(ts) :
            /\ TrackLang(ts[i]) = lang
            /\ \A j \in 1..(i - 1) : TrackLang(ts[j]) # lang
    ELSE 0

\* a selection that prefers manual tracks when no language is asked for
SelectedTrack_ManualFirst(caption_tracks, lang) ==
    LET auto_captions == SelectTracks(caption_tracks, "asr")
        manual_captions == SelectTracks(caption_tracks, "manual")
        target_tracks == IF lang = None /\ manual_captions # <<>> THEN manual_captions
                         ELSE IF auto_captions # <<>> THEN auto_captions
                         ELSE caption_tracks
        m == IF lang # None THEN FirstWithLang(target_tracks, lang) ELSE 0
    IN  IF m # 0 THEN target_tracks[m] ELSE target_tracks[1]

SelectedTrack(caption_tracks, lang) ==
    LET auto_captions == SelectTracks(caption_tracks, "asr")
        target_tracks == IF auto_captions # <<>> THEN auto_captions ELSE caption_tracks
        m == IF lang # None THEN FirstWithLang(target_tracks, lang) ELSE 0
    IN  IF m # 0 THEN target_tracks[m] ELSE target_tracks[1]

\* the text of the <text> elements that have any, stripped
RECURSIVE TranscriptParts(_)
TranscriptParts(segments) ==
    IF segments = <<>> THEN <<>>
    ELSE IF Head(segments) # <<>>
         THEN <<Strip(Head(segments))>> \o TranscriptParts(Tail(segments))
    ELSE TranscriptParts(Tail(segments))

\* what the backend does to one scrape: the page fetch fails, or it yields a
\* page; on a page that carries tracks the later steps can fail too
ScrapeResponses ==
    [failure : {"page_status", "page_raises"}, page : {<<"no_match", "no_match", "no_match">>}]
    \cup [failure : {"none"}, page : Pages]
    \cup [failure : {"no_base_url", "caption_status", "xml_parse_error"},
          page : {p \in Pages : CaptionData(p, 1) \in {"tracks_object", "renderer_object"}}]

extract_captions_from_video_page(ts, lang, resp) ==
    LET caption_data == CaptionData(resp.page, 1)
        caption_tracks == CaptionTracks(caption_data, ts)
        transcript_parts == TranscriptParts(SelectedTrack(caption_tracks, lang).segments)
    IN  IF resp.failure \in {"page_status", "page_raises"} THEN None
        ELSE IF caption_data \in {"no_match", "empty"} THEN None
        ELSE IF caption_tracks = <<>> THEN None
        ELSE IF resp.failure = "no_base_url" THEN None
        ELSE IF resp.failure = "caption_status" THEN None
        ELSE IF resp.failure = "xml_parse_error" THEN None
        ELSE IF transcript_parts = <<>> THEN None
        ELSE Join(transcript_parts, <<" ">>)

\* whether an exception was raised inside extract_captions_from_video_page
ScrapeRaises(ts, resp) ==
    \/ resp.failure = "page_raises"
    \/ /\ resp.failure = "xml_parse_error"
       /\ CaptionTracks(CaptionData(resp.page, 1), ts) # <<>>

(***************************************************************************)
(* check_video_availability: the status of the watch page, or an exception.*)
(***************************************************************************)
AvailabilityResponses == {"200", "404", "raises"}

Msg_StatusCode == <<"Failed to retrieve video. Status code: ">>
Msg_CheckFailed == <<"Failed to check video availability: ">>
Msg_NoCaptions == <<"Could not retrieve captions.">>

\* the pair (is_available, message)
check_video_availability(resp) ==
    IF resp = "200" THEN [is_available |-> TRUE, message |-> None]
    ELSE IF resp = "raises" THEN [is_available |-> FALSE, message |-> Msg_CheckFailed]
    ELSE [is_available |-> FALSE, message |-> Msg_StatusCode \o <<resp>>]

\* f"Error: {message}"
ErrorText(message) == Str_Error \o <<" ">> \o message

(***************************************************************************)
(* get_transcript: the pre-flight check, then the strategies one after the *)
(* other until one hands back a transcript.  Every strategy catches its    *)
(* own exceptions, so the handler that closes get_transcript's try block   *)
(* is never entered and has no action here.                                *)
(***************************************************************************)
\* the order with the transcript listing tried before the Data API
StrategyOrder_ListingFirst == <<"transcript_api", "youtube_api", "pytube", "scrape">>

StrategyOrder == <<"youtube_api", "transcript_api", "pytube", "scrape">>

\* the strategy get_transcript tries next
NextStrategy ==
    IF pc = "strategy" /\ Len(invoked) < Len(StrategyOrder)
    THEN StrategyOrder[Len(invoked) + 1]
    ELSE "none"

\* whether get_transcript returns what the strategy handed back: the
\* transcript listing returns from inside its block, the others are tested
\* for truth
Returns(strategy, out) ==
    IF strategy = "transcript_api" THEN out # None ELSE Truthy(out)

\* a chain that cuts the returned text at Ceiling and appends the marker
AfterStrategy_Truncates(strategy, out) ==
    /\ invoked' = Append(invoked, strategy)
    /\ reports' = Append(reports, out)
    /\ IF Returns(strategy, out)
       THEN /\ pc' = "returned"
            /\ transcript' = IF Len(out) > Ceiling
                             THEN SubSeq(out, 1, Ceiling) \o TruncationMarker
                             ELSE out
       ELSE IF Len(invoked) + 1 = Len(StrategyOrder)
       THEN pc' = "returned" /\ transcript' = ErrorText(Msg_NoCaptions)
       ELSE pc' = "strategy" /\ transcript' = transcript
    /\ UNCHANGED <<tracks, lang_code, checked, session, route, response>>
    /\ UNCHANGED sumVars
    /\ UNCHANGED auxVars

\* a chain that goes on to the later strategies after one succeeded
AfterStrategy_TriesAll(strategy, out) ==
    /\ invoked' = Append(invoked, strategy)
    /\ reports' = Append(reports, out)
    /\ IF Len(invoked) + 1 = Len(StrategyOrder)
       THEN /\ pc' = "returned"
            /\ transcript' = IF Returns(strategy, out) THEN out
                             ELSE IF transcript # None THEN transcript
                             ELSE ErrorText(Msg_NoCaptions)
       ELSE /\ pc' = "strategy"
            /\ transcript' = IF Returns(strategy, out) THEN out ELSE transcript
    /\ UNCHANGED <<tracks, lang_code, checked, session, route, response>>
    /\ UNCHANGED sumVars
    /\ UNCHANGED auxVars

\* a chain that gives up before the last strategy
AfterStrategy_GivesUpEarly(strategy, out) ==
    /\ invoked' = Append(invoked, strategy)
    /\ reports' = Append(reports, out)
    /\ IF Returns(strategy, out)
       THEN pc' = "returned" /\ transcript' = out
       ELSE IF Len(invoked) + 2 >= Len(StrategyOrder)
       THEN pc' = "returned" /\ transcript' = ErrorText(Msg_NoCaptions)
       ELSE pc' = "strategy" /\ transcript' = transcript
    /\ UNCHANGED <<tracks, lang_code, checked, session, route, response>>
    /\ UNCHANGED sumVars
    /\ UNCHANGED auxVars

\* get_transcript after a strategy handed back out
AfterStrategy(strategy, out) ==
    /\ invoked' = Append(invoked, strategy)
    /\ reports' = Append(reports, out)
    /\ IF Returns(strategy, out)
       THEN pc' = "returned" /\ transcript' = out
       ELSE IF Len(invoked) + 1 = Len(StrategyOrder)
       THEN pc' = "returned" /\ transcript' = ErrorText(Msg_NoCaptions)
       ELSE pc' = "strategy" /\ transcript' = transcript
    /\ UNCHANGED <<tracks, lang_code, checked, session, route, response>>
    /\ UNCHANGED sumVars
    /\ UNCHANGED auxVars

NotChecked == [is_available |-> FALSE, message |-> None]

\* a pre-flight check whose report is not looked at
CheckAvailability_IgnoresReport ==
    /\ pc = "check"
    /\ \E resp \in AvailabilityResponses :
         checked' = check_video_availability(resp)
    /\ pc' = "strategy"
    /\ UNCHANGED <<tracks, lang_code, invoked, reports, transcript, session, route,
                   response, raised, api_trace>>
    /\ UNCHANGED sumVars
    /\ UNCHANGED auxVars

CheckAvailability ==
    /\ pc = "check"
    /\ \E resp \in AvailabilityResponses :
         LET r == check_video_availability(resp)
         IN  /\ checked' = r
             /\ IF ~r.is_available
                THEN pc' = "returned" /\ transcript' = ErrorText(r.message)
                ELSE pc' = "strategy" /\ transcript' = transcript
    /\ UNCHANGED <<tracks, lang_code, invoked, reports, session, route, response,
                   raised, api_trace>>
    /\ UNCHANGED sumVars
    /\ UNCHANGED auxVars

TryYouTubeApi ==
    /\ NextStrategy = "youtube_api"
    /\ \E resp \in YouTubeApiResponses :
         /\ AfterStrategy("youtube_api", get_transcript_youtube_api(tracks, resp))
         /\ raised' = Append(raised, YouTubeApiRaises(tracks, resp))
         /\ api_trace' = YouTubeApiTrace(tracks, resp)

TryTranscriptApi ==
    /\ NextStrategy = "transcript_api"
    /\ \E resp \in TranscriptApiResponses :
         /\ AfterStrategy("transcript_api",
                          transcript_api_block(tracks, lang_code, resp))
         /\ raised' = Append(raised, TranscriptApiRaises(tracks, resp))
         /\ api_trace' = <<>>

TryPytube ==
    /\ NextStrategy = "pytube"
    /\ \E resp \in PytubeResponses :
         /\ AfterStrategy("pytube", get_transcript_pytube(tracks, resp))
         /\ raised' = Append(raised, PytubeRaises(tracks, resp))
         /\ api_trace' = <<>>

TryScrape ==
    /\ NextStrategy = "scrape"
    /\ \E resp \in ScrapeResponses :
         /\ AfterStrategy("scrape",
                          extract_captions_from_video_page(tracks, lang_code, resp))
         /\ raised' = Append(raised, ScrapeRaises(tracks, resp))
         /\ api_trace' = <<>>

(***************************************************************************)
(* The summarization providers.                                            *)
(***************************************************************************)
Services == {"gemini", "openai", "claude", "unknown-llm"}

Keys == {"k1", "k2"}

\* a request field that is absent or empty
Missing == ""

NoCall == [shape |-> "none", api_key |-> Missing]

Absent == <<"absent">>

NoResponse == [status |-> 0, error |-> Absent, summary |-> Absent, transcript |-> Absent]

\* the first provider call summarize_with_ai makes for a service, NoCall for
\* a service none of its branches names
FirstCall(svc, api_key) ==
    IF svc = "gemini" THEN [shape |-> "gemini.generate_content", api_key |-> api_key]
    ELSE IF svc = "openai" THEN [shape |-> "openai.ChatCompletion", api_key |-> api_key]
    ELSE IF svc = "claude" THEN [shape |-> "claude.messages", api_key |-> api_key]
    ELSE NoCall

\* how a provider call can end: its reply, an error of the provider (invalid
\* key, quota, rate), a reply without the expected fields, or a client
\* without the attribute called
CallOutcomes == {"reply", "provider_error", "malformed_reply", "attribute_error"}

Str_Summary == <<"s">>
Msg_SummarizationError == <<"Error in AI summarization: ">>

\* return f"Error in AI summarization: {str(e)}"
SummarizationError(out) == Msg_SummarizationError \o <<out>>

\* a claude branch that tries the older call shape after any failure
FallsBack_OnAnyFailure(call, out) == call.shape = "claude.messages" /\ out # "reply"

\* whether the handler of the claude branch catches the outcome and falls
\* back to the older call shape
FallsBack(call, out) == call.shape = "claude.messages" /\ out = "attribute_error"

OlderCall(call) == [shape |-> "claude.completion", api_key |-> call.api_key]

\* what summarize_with_ai returns when its last provider call ends in out
SummaryOf(out) == IF out = "reply" THEN Str_Summary ELSE SummarizationError(out)

(***************************************************************************)
(* The routes.                                                             *)
(***************************************************************************)
ErrorResponse(status, message) ==
    [status |-> status, error |-> message, summary |-> Absent, transcript |-> Absent]

Msg_KeyRequired == <<"Service and API key are required">>
Msg_NoApiKey == <<"No API key found">>
Msg_NoUrl == <<"No URL provided">>
Msg_InvalidUrl == <<"Invalid YouTube URL format">>

\* the response of the route once summarize_with_ai returned summary
SummaryResponse(summary) ==
    IF route = "get_transcript"
    THEN [status |-> 200, error |-> Absent, summary |-> summary, transcript |-> transcript]
    ELSE [status |-> 200, error |-> Absent, summary |-> summary, transcript |-> Absent]

\* the route calls summarize_with_ai(transcript, svc, api_key): up to the
\* provider call, or to the response when it makes none
summarize_with_ai(svc, api_key) ==
    LET call == FirstCall(svc, api_key)
    IN  /\ service' = svc
        /\ elapsed' = 0
        /\ outcome' = "none"
        /\ IF call = NoCall
           THEN /\ calls' = <<>>
                /\ pending' = NoCall
                /\ response' = SummaryResponse(None)
                /\ pc' = "respond"
           ELSE /\ calls' = <<call>>
                /\ pending' = call
                /\ response' = NoResponse
                /\ pc' = "provider_call"

\* POST /set_api_key
set_api_key ==
    /\ pc = "idle"
    /\ \E svc \in Services \cup {Missing}, api_key \in Keys \cup {Missing} :
         IF svc = Missing \/ api_key = Missing
         THEN /\ response' = ErrorResponse(400, Msg_KeyRequired)
              /\ session' = session
         ELSE /\ response' = [NoResponse EXCEPT !.status = 200]
              /\ session' = [session EXCEPT ![svc] = api_key]
    /\ route' = "set_api_key"
    /\ pc' = "respond"
    /\ UNCHANGED sumVars
    /\ UNCHANGED acqVars
    /\ UNCHANGED auxVars

\* service = data.get('service', 'gemini')
SelectedService(svc) == IF svc = Missing THEN "gemini" ELSE svc

\* a route that does not look whether the session holds a key
summarize_transcript_NoKeyCheck ==
    /\ pc = "idle"
    /\ route' = "summarize"
    /\ \E svc \in Services \cup {Missing} :
         summarize_with_ai(SelectedService(svc), session[SelectedService(svc)])
    /\ UNCHANGED session
    /\ UNCHANGED acqVars
    /\ UNCHANGED auxVars

\* POST /summarize
summarize_transcript ==
    /\ pc = "idle"
    /\ route' = "summarize"
    /\ \E svc \in Services \cup {Missing} :
         LET api_key == session[SelectedService(svc)]
         IN  IF api_key = Missing
             THEN /\ response' = ErrorResponse(401, Msg_NoApiKey)
                  /\ service' = SelectedService(svc)
                  /\ pc' = "respond"
                  /\ UNCHANGED <<calls, pending, elapsed, outcome>>
             ELSE summarize_with_ai(SelectedService(svc), api_key)
    /\ UNCHANGED session
    /\ UNCHANGED acqVars
    /\ UNCHANGED auxVars

\* the URLs a request can carry: none, one that is no video URL, a watch URL
Urls == {Missing, "https://example.com/", "https://www.youtube.com/watch?v=VIDEO"}

\* extract_video_id(url): the identifier, Missing for None
extract_video_id(url) ==
    IF url = "https://www.youtube.com/watch?v=VIDEO" THEN "VIDEO" ELSE Missing

\* the videos and languages that requests to the route name
RouteVideos ==
    { <<>>,
      <<[languageCode |-> <<"en">>, kind |-> "manual", segments |-> <<Seg_a>>]>>,
      <<[languageCode |-> <<"es">>, kind |-> "asr", segments |-> <<Str_Error, Seg_b>>]>>,
      <<[languageCode |-> <<"en">>, kind |-> "asr", segments |-> <<>>]>> }

RouteLanguages == {None, <<"en">>}

\* POST /get_transcript, up to the call of get_transcript
get_transcript_route ==
    /\ pc = "idle"
    /\ route' = "get_transcript"
    /\ \E url \in Urls, lang \in RouteLanguages, svc \in Services \cup {Missing},
          video \in RouteVideos :
         /\ service' = SelectedService(svc)
         /\ IF url = Missing
            THEN /\ response' = ErrorResponse(400, Msg_NoUrl)
                 /\ pc' = "respond"
                 /\ UNCHANGED <<tracks, lang_code>>
            ELSE IF extract_video_id(url) = Missing
            THEN /\ response' = ErrorResponse(400, Msg_InvalidUrl)
                 /\ pc' = "respond"
                 /\ UNCHANGED <<tracks, lang_code>>
            ELSE /\ response' = NoResponse
                 /\ pc' = "check"
                 /\ tracks' = video
                 /\ lang_code' = lang
    /\ UNCHANGED <<checked, invoked, reports, transcript, session, calls, pending,
                   elapsed, outcome, raised, api_trace>>
    /\ UNCHANGED auxVars

\* POST /get_transcript, once get_transcript returned
get_transcript_returned ==
    /\ pc = "returned"
    /\ route = "get_transcript"
    /\ IF StartsWith(transcript, Str_Error)
       THEN /\ response' = ErrorResponse(400, transcript)
            /\ pc' = "respond"
            /\ UNCHANGED sumVars
       ELSE IF session[service] = Missing
       THEN /\ response' = ErrorResponse(401, Msg_NoApiKey)
            /\ pc' = "respond"
            /\ UNCHANGED sumVars
       ELSE summarize_with_ai(service, session[service])
    /\ UNCHANGED <<session, route>>
    /\ UNCHANGED acqVars
    /\ UNCHANGED auxVars

\* the blocking provider call returns or raises
ProviderCompletes ==
    /\ pc = "provider_call"
    /\ \E out \in CallOutcomes :
         /\ outcome' = out
         /\ IF FallsBack(pending, out)
            THEN /\ calls' = Append(calls, OlderCall(pending))
                 /\ pending' = OlderCall(pending)
                 /\ UNCHANGED <<pc, response>>
            ELSE /\ response' = SummaryResponse(SummaryOf(out))
                 /\ pending' = NoCall
                 /\ pc' = "respond"
                 /\ calls' = calls
    /\ UNCHANGED <<session, route, service, elapsed>>
    /\ UNCHANGED acqVars
    /\ UNCHANGED auxVars

\* a wait that gives up at the deadline and answers with a timeout error
Tick_GivesUpAtDeadline ==
    /\ pc = "provider_call"
    /\ elapsed <= Deadline
    /\ elapsed' = elapsed + 1
    /\ IF elapsed' > Deadline
       THEN /\ pc' = "respond"
            /\ pending' = NoCall
            /\ response' = SummaryResponse(SummarizationError("timeout"))
       ELSE UNCHANGED <<pc, pending, response>>
    /\ UNCHANGED <<session, route, service, calls, outcome>>
    /\ UNCHANGED acqVars
    /\ UNCHANGED auxVars

\* time passes while the handler waits for the provider
Tick ==
    /\ pc = "provider_call"
    /\ elapsed <= Deadline
    /\ elapsed' = elapsed + 1
    /\ UNCHANGED <<pc, session, route, service, calls, pending, outcome, response>>
    /\ UNCHANGED acqVars
    /\ UNCHANGED auxVars

\* the route returns its response: the locals of the handler are gone, the
\* session and the response stay with the client
SendResponse ==
    /\ pc = "respond"
    /\ pc' = "idle"
    /\ route' = "none"
    /\ tracks' = <<>>
    /\ lang_code' = None
    /\ checked' = NotChecked
    /\ invoked' = <<>>
    /\ reports' = <<>>
    /\ transcript' = None
    /\ service' = Missing
    /\ calls' = <<>>
    /\ elapsed' = 0
    /\ outcome' = "none"
    /\ raised' = <<>>
    /\ api_trace' = <<>>
    /\ UNCHANGED <<session, pending, response>>
    /\ UNCHANGED auxVars

(***************************************************************************)
(* get_available_languages: the listing of the transcripts of a video, the *)
(* manually created ones and then the generated ones.  An entry carries    *)
(* the code and the type; the display name follows the code and is left    *)
(* out.                                                                    *)
(***************************************************************************)
LanguagesResponses == {"raises", "ok"}

RECURSIVE LanguageEntries(_, _)
LanguageEntries(ts, type) ==
    IF ts = <<>> THEN <<>>
    ELSE <<[code |-> Head(ts).languageCode, type |-> type]>>
         \o LanguageEntries(Tail(ts), type)

\* a listing in the order of the backend, whatever the origin
RECURSIVE get_available_languages_BackendOrder(_, _)
get_available_languages_BackendOrder(ts, resp) ==
    IF resp = "raises" \/ ts = <<>> THEN <<>>
    ELSE LanguageEntries(<<Head(ts)>>,
                         IF Head(ts).kind = "manual" THEN "manual" ELSE "generated")
         \o get_available_languages_BackendOrder(Tail(ts), resp)

get_available_languages(ts, resp) ==
    IF resp = "raises" THEN <<>>
    ELSE LanguageEntries(SelectTracks(ts, "manual"), "manual")
         \o LanguageEntries(SelectTracks(ts, "asr"), "generated")

NotListed == [called |-> FALSE, raised |-> FALSE, result |-> <<>>]

\* get_available_languages(video_id), called on the video
GetAvailableLanguages ==
    /\ pc = "languages"
    /\ \E resp \in LanguagesResponses :
         languages' = [called |-> TRUE, raised |-> resp = "raises",
                       result |-> get_available_languages(tracks, resp)]
    /\ pc' = "listed"
    /\ UNCHANGED <<session, route, response, scrape, config, threads>>
    /\ UNCHANGED acqVars
    /\ UNCHANGED sumVars

(***************************************************************************)
(* extract_captions_from_video_page called on its own.                     *)
(***************************************************************************)
NotScraped ==
    [called |-> FALSE, resp |-> [failure |-> "none", page |-> <<"no_match", "no_match", "no_match">>],
     result |-> None]

\* extract_captions_from_video_page(video_id, lang_code), called on the video
ScrapePage ==
    /\ pc = "scrape"
    /\ \E resp \in ScrapeResponses :
         scrape' = [called |-> TRUE, resp |-> resp,
                    result |-> extract_captions_from_video_page(tracks, lang_code, resp)]
    /\ pc' = "scraped"
    /\ UNCHANGED <<session, route, response, languages, config, threads>>
    /\ UNCHANGED acqVars
    /\ UNCHANGED sumVars

(***************************************************************************)
(* summarize_with_ai in concurrent request threads of the one process.     *)
(* genai.configure and openai.api_key set a credential for the whole       *)
(* process, which the call of the provider reads when it is made; the      *)
(* anthropic client is an object of the thread.  A thread can be scheduled *)
(* between configure_ai_service and the call.                              *)
(***************************************************************************)
ThreadIds == {"t1", "t2"}

NoConfig == [genai |-> Missing, openai |-> Missing]

IdleThread ==
    [pc |-> "idle", service |-> Missing, api_key |-> Missing, ai_client |-> Missing,
     call |-> NoCall]

\* configure_ai_service(service, api_key) in thread t
configure_ai_service(t) ==
    /\ threads[t].pc = "start"
    /\ LET svc == threads[t].service
           api_key == threads[t].api_key
       IN  /\ config' = IF svc = "gemini" THEN [config EXCEPT !.genai = api_key]
                        ELSE IF svc = "openai" THEN [config EXCEPT !.openai = api_key]
                        ELSE config
           /\ threads' = [threads EXCEPT ![t].pc = "configured",
                                         ![t].ai_client = IF svc = "claude" THEN api_key
                                                          ELSE Missing]
    /\ UNCHANGED <<pc, session, route, response, languages, scrape>>
    /\ UNCHANGED acqVars
    /\ UNCHANGED sumVars

\* the credential the call of a provider is made with
Credential(t) ==
    IF threads[t].service = "gemini" THEN config.genai
    ELSE IF threads[t].service = "openai" THEN config.openai
    ELSE threads[t].ai_client

\* the provider call of summarize_with_ai in thread t
ProviderCall(t) ==
    /\ threads[t].pc = "configured"
    /\ threads' = [threads EXCEPT ![t].pc = "done",
                                  ![t].call = FirstCall(threads[t].service, Credential(t))]
    /\ UNCHANGED <<pc, session, route, response, languages, scrape, config>>
    /\ UNCHANGED acqVars
    /\ UNCHANGED sumVars

InitRequest ==
    /\ raised = <<>>
    /\ api_trace = <<>>
    /\ checked = NotChecked
    /\ invoked = <<>>
    /\ reports = <<>>
    /\ transcript = None
    /\ session = [s \in Services |-> Missing]
    /\ service = Missing
    /\ calls = <<>>
    /\ pending = NoCall
    /\ elapsed = 0
    /\ outcome = "none"
    /\ response = NoResponse

\* get_transcript(video_id, lang_code), called on any video
Init ==
    /\ tracks \in Videos
    /\ lang_code \in RequestLanguages
    /\ pc = "check"
    /\ route = "none"
    /\ InitRequest
    /\ languages = NotListed
    /\ scrape = NotScraped
    /\ config = NoConfig
    /\ threads = [t \in ThreadIds |-> IdleThread]

Next ==
    \/ CheckAvailability
    \/ TryYouTubeApi
    \/ TryTranscriptApi
    \/ TryPytube
    \/ TryScrape

Spec == Init /\ [][Next]_vars

\* the application with an empty session, serving one request after another
RouteInit ==
    /\ tracks = <<>>
    /\ lang_code = None
    /\ pc = "idle"
    /\ route = "none"
    /\ InitRequest
    /\ languages = NotListed
    /\ scrape = NotScraped
    /\ config = NoConfig
    /\ threads = [t \in ThreadIds |-> IdleThread]

RouteNext ==
    \/ set_api_key
    \/ summarize_transcript
    \/ get_transcript_route
    \/ CheckAvailability
    \/ TryYouTubeApi
    \/ TryTranscriptApi
    \/ TryPytube
    \/ TryScrape
    \/ get_transcript_returned
    \/ ProviderCompletes
    \/ Tick
    \/ SendResponse

RouteSpec == RouteInit /\ [][RouteNext]_vars

\* get_available_languages(video_id), called on any video
LanguagesInit ==
    /\ tracks \in Videos
    /\ lang_code = None
    /\ pc = "languages"
    /\ route = "none"
    /\ InitRequest
    /\ languages = NotListed
    /\ scrape = NotScraped
    /\ config = NoConfig
    /\ threads = [t \in ThreadIds |-> IdleThread]

LanguagesNext == GetAvailableLanguages

LanguagesSpec == LanguagesInit /\ [][LanguagesNext]_vars

\* the videos the scrape is called on alone: those with at most one track
ScrapeVideos == {v \in Videos : Len(v) <= 1}

\* extract_captions_from_video_page(video_id, lang_code), called on a video
ScrapeInit ==
    /\ tracks \in ScrapeVideos
    /\ lang_code \in RequestLanguages
    /\ pc = "scrape"
    /\ route = "none"
    /\ InitRequest
    /\ languages = NotListed
    /\ scrape = NotScraped
    /\ config = NoConfig
    /\ threads = [t \in ThreadIds |-> IdleThread]

ScrapeNext == ScrapePage

ScrapeSpec == ScrapeInit /\ [][ScrapeNext]_vars

\* two requests in the process at once, each about to call summarize_with_ai
\* with the service and the key of its own session
ConcurrentInit ==
    /\ tracks = <<>>
    /\ lang_code = None
    /\ pc = "concurrent"
    /\ route = "none"
    /\ InitRequest
    /\ languages = NotListed
    /\ scrape = NotScraped
    /\ config = NoConfig
    /\ threads \in [ThreadIds -> [pc : {"start"}, service : Services, api_key : Keys,
                                  ai_client : {Missing}, call : {NoCall}]]

ConcurrentNext ==
    \E t \in ThreadIds : configure_ai_service(t) \/ ProviderCall(t)

ConcurrentSpec == ConcurrentInit /\ [][ConcurrentNext]_vars

(***************************************************************************)
(* Properties of get_transcript, checked under Spec.                       *)
(***************************************************************************)
\* the pre-flight check was made and reported the video unavailable
ReportedUnavailable == checked # NotChecked /\ ~checked.is_available

\* get_transcript returned what the last strategy it invoked handed back
Succeeded ==
    /\ pc \in {"returned", "respond", "provider_call"}
    /\ invoked # <<>>
    /\ Returns(invoked[Len(invoked)], reports[Len(reports)])

\* the strategy whose transcript get_transcript returned
Source == IF Succeeded THEN invoked[Len(invoked)] ELSE "none"

\* C1: whenever the availability check reports the video unavailable,
\* get_transcript returns the error text carrying the check's message and
\* has invoked no strategy at all.
C1_UnavailableInvokesNoStrategy ==
    ReportedUnavailable =>
        /\ pc = "returned"
        /\ transcript = Str_Error \o <<" ">> \o checked.message
        /\ invoked = <<>>
        /\ reports = <<>>

C1_Witness ==
    /\ ReportedUnavailable
    /\ pc = "returned"
    /\ checked.message = Msg_StatusCode \o <<"404">>
    /\ tracks # <<>>

\* C2: when a strategy is the first to hand back a transcript, it is the last
\* strategy invoked, get_transcript has returned, and what it returned is
\* that strategy's text; no strategy is invoked after it.
C2_ShortCircuit ==
    \A k \in 1..Len(invoked) :
        Returns(invoked[k], reports[k]) =>
            /\ k = Len(invoked)
            /\ pc = "returned"
            /\ transcript = reports[k]

C2_Witness ==
    /\ pc = "returned"
    /\ Len(invoked) = 2
    /\ Returns(invoked[2], reports[2])
    /\ transcript = reports[2]
    /\ Len(tracks) = 2

\* C3 as stated: the strategies are attempted in the order transcript
\* listing, Data API, pytube, page scrape.
C3_ListingBeforeDataApi ==
    \A k \in 1..Len(invoked) :
        invoked[k] = <<"transcript_api", "youtube_api", "pytube", "scrape">>[k]

\* C3 amended: after a passed pre-flight check the strategies are attempted
\* in the order Data API, transcript listing, pytube, page scrape, each only
\* after every strategy before it handed back nothing.
C3_DataApiFirst ==
    /\ Len(invoked) <= 4
    /\ Len(reports) = Len(invoked)
    /\ invoked # <<>> => checked.is_available
    /\ \A k \in 1..Len(invoked) :
        /\ invoked[k] = <<"youtube_api", "transcript_api", "pytube", "scrape">>[k]
        /\ \A j \in 1..(k - 1) : ~Returns(invoked[j], reports[j])

C3_Witness ==
    /\ invoked = <<"youtube_api", "transcript_api", "pytube", "scrape">>
    /\ Succeeded

\* what each strategy makes of a track
SrtTextOf(track) == CleanSrt(generate_srt_captions(track))
ListingTextOf(track) == format_transcript(track.segments)
ScrapeTextOf(track) == Join(TranscriptParts(track.segments), <<" ">>)
TextsOf(track) == {SrtTextOf(track), ListingTextOf(track), ScrapeTextOf(track)}

HasKind(kind) == \E i \in 1..Len(tracks) : tracks[i].kind = kind

\* the first track of a kind, in backend order
FirstOfKind(kind) ==
    tracks[CHOOSE i \in 1..Len(tracks) :
              /\ tracks[i].kind = kind
              /\ \A j \in 1..(i - 1) : tracks[j].kind # kind]

\* the track the claims expect when no track matches: the first
\* auto-generated one, else the first of any kind
FallbackTrack == IF HasKind("asr") THEN FirstOfKind("asr") ELSE tracks[1]

ManualEnglish(track) == track.kind = "manual" /\ track.languageCode = <<"en">>

\* the track each strategy takes when the language plays no part
TrackTakenWithoutMatch(strategy) ==
    IF strategy = "youtube_api" THEN tracks[1]
    ELSE IF strategy = "pytube"
    THEN IF \E i \in 1..Len(tracks) : ManualEnglish(tracks[i])
         THEN CHOOSE t \in {tracks[i] : i \in 1..Len(tracks)} : ManualEnglish(t)
         ELSE tracks[1]
    ELSE FallbackTrack

TextTakenWithoutMatch(strategy) ==
    IF strategy \in {"youtube_api", "pytube"} THEN SrtTextOf(TrackTakenWithoutMatch(strategy))
    ELSE IF strategy = "transcript_api" THEN ListingTextOf(TrackTakenWithoutMatch(strategy))
    ELSE ScrapeTextOf(TrackTakenWithoutMatch(strategy))

TracksWithCode(code) == {i \in 1..Len(tracks) : tracks[i].languageCode = code}

\* C4 as stated: when exactly one track has the preferred language code, the
\* transcript acquired is that track's text.
C4_ExactLanguageTrackChosen ==
    (Succeeded /\ lang_code # None /\ Cardinality(TracksWithCode(lang_code)) = 1) =>
        \E i \in TracksWithCode(lang_code) : transcript \in TextsOf(tracks[i])

\* C5 as stated: when the preferred language code matches no track, the
\* transcript acquired is the first auto-generated track's text if there is
\* an auto-generated track, otherwise the first track's.
C5_FallbackToFirstGenerated ==
    (Succeeded /\ lang_code # None /\ TracksWithCode(lang_code) = {}) =>
        transcript \in TextsOf(FallbackTrack)

\* no track has the preferred code, nor the preferred code as its base language
NoTrackMatches ==
    /\ lang_code # None
    /\ \A i \in 1..Len(tracks) :
        /\ tracks[i].languageCode # lang_code
        /\ <<Head(tracks[i].languageCode)>> # lang_code

\* C5 amended: when the preferred language matches no track (by code or by
\* base language), the transcript listing and the page scrape return the
\* first auto-generated track, the page scrape the first track when none is
\* auto-generated; the Data API returns the first track and pytube the manual
\* English track or else the first track, whatever their origin.
C5_FallbackPerStrategy ==
    (Succeeded /\ NoTrackMatches) =>
        /\ tracks # <<>>
        /\ transcript = TextTakenWithoutMatch(Source)
        /\ Source = "transcript_api" => HasKind("asr")

C5_Witness ==
    /\ Succeeded
    /\ NoTrackMatches
    /\ Source = "youtube_api"
    /\ HasKind("asr")
    /\ transcript \notin TextsOf(FallbackTrack)

\* C6 as stated: without a preferred language, a video with a manual track
\* yields a manual track's text.
C6_ManualPreferred ==
    (Succeeded /\ lang_code = None /\ HasKind("manual")) =>
        \E i \in 1..Len(tracks) :
            tracks[i].kind = "manual" /\ transcript \in TextsOf(tracks[i])

\* C6 amended: without a preferred language, manual tracks get no
\* preference: the transcript listing and the page scrape return the first
\* auto-generated track also when a manual track exists (the page scrape the
\* first track when none is auto-generated), the Data API the first track,
\* pytube the manual English track or else the first track.
C6_GeneratedPreferred ==
    (Succeeded /\ lang_code = None) =>
        /\ transcript = TextTakenWithoutMatch(Source)
        /\ (Source \in {"transcript_api", "scrape"} /\ HasKind("asr")) =>
              \E i \in 1..Len(tracks) :
                  tracks[i].kind = "asr" /\ transcript \in TextsOf(tracks[i])

C6_Witness ==
    /\ Succeeded
    /\ lang_code = None
    /\ Source = "scrape"
    /\ HasKind("manual")
    /\ HasKind("asr")
    /\ \A i \in 1..Len(tracks) :
          tracks[i].kind = "manual" => transcript \notin TextsOf(tracks[i])

\* C7 as stated: a transcript longer than the ceiling is returned cut to the
\* ceiling with the truncation marker appended, a shorter one unchanged.
C7_TruncatedAtCeiling ==
    Succeeded =>
        LET text == reports[Len(reports)]
        IN  IF Len(text) > Ceiling
            THEN /\ Len(transcript) = Ceiling + Len(TruncationMarker)
                 /\ SubSeq(transcript, Ceiling + 1, Len(transcript)) = TruncationMarker
            ELSE transcript = text

\* C7 amended: get_transcript returns the text the successful strategy
\* handed back unchanged, whatever its length; nothing is cut and no marker
\* is appended.
C7_ReturnedUnchanged ==
    Succeeded =>
        /\ transcript = reports[Len(reports)]
        /\ Len(transcript) = Len(reports[Len(reports)])

C7_Witness ==
    /\ Succeeded
    /\ Len(reports[Len(reports)]) > Ceiling + Len(TruncationMarker)
    /\ transcript = reports[Len(reports)]

(***************************************************************************)
(* Properties of the routes, checked under RouteSpec.                      *)
(***************************************************************************)
RecognizedServices == {"gemini", "openai", "claude"}

\* the route called summarize_with_ai and has its response
Summarized ==
    /\ pc = "respond"
    /\ route \in {"summarize", "get_transcript"}
    /\ response.status \notin {400, 401}

C9_UnsupportedProviderFails ==
    (pc = "respond" /\ route \in {"summarize", "get_transcript"}
        /\ service \notin RecognizedServices) =>
        /\ response.status # 200
        /\ response.error # Absent
        /\ calls = <<>>

\* C10 as stated: when the provider call failed, the caller does not receive
\* a success response whose summary carries the failure message.
C10_FailureNotReturnedAsSummary ==
    (pc = "respond" /\ outcome \in CallOutcomes \ {"reply"}) =>
        ~(/\ response.status = 200
          /\ StartsWith(response.summary, Msg_SummarizationError))

(***************************************************************************)
(* Properties of concurrent summarize calls, checked under ConcurrentSpec. *)
(***************************************************************************)
\* thread t made its provider call
MadeCall(t) == threads[t].pc = "done" /\ threads[t].call # NoCall

\* C11 as stated: of two concurrent summarize calls that select the same
\* provider with different credentials, each makes its provider call with
\* the credential of its own request, never with the other's.
C11_OwnCredentialUsed ==
    \A t \in ThreadIds, u \in ThreadIds :
        (/\ t # u
         /\ threads[t].service = threads[u].service
         /\ threads[t].api_key # threads[u].api_key
         /\ MadeCall(t)) =>
            threads[t].call.api_key = threads[t].api_key

(***************************************************************************)
(* Further properties of get_transcript, checked under Spec.               *)
(***************************************************************************)
\* C12 as stated: whenever get_transcript returns the transcript of a
\* strategy, the returned text is not empty.
C12_SuccessTextNonEmpty ==
    Succeeded => transcript # <<>>

\* every strategy of the order was invoked and none handed back a transcript
AllUnavailable ==
    /\ invoked = StrategyOrder
    /\ \A i \in 1..Len(invoked) : ~Returns(invoked[i], reports[i])

\* C13: if every strategy reports not available, get_transcript returns the
\* aggregate "Could not retrieve captions" error, and it returns that error
\* only after all four strategies were attempted and reported not available.
C13_AggregateErrorAfterAllFour ==
    /\ AllUnavailable => (pc = "returned" /\ transcript = ErrorText(Msg_NoCaptions))
    /\ transcript = ErrorText(Msg_NoCaptions) =>
          (AllUnavailable /\ Len(invoked) = 4)

C13_Witness ==
    /\ pc = "returned"
    /\ tracks # <<>>
    /\ AllUnavailable
    /\ transcript = ErrorText(Msg_NoCaptions)

\* C14: an exception raised inside a strategy is absorbed: the strategy
\* counts as not available, the next strategy in order is still attempted
\* (the raise does not end get_transcript unless the strategy was the last),
\* a later strategy's transcript is returned as the result, and after a
\* passed pre-flight check the only failure get_transcript returns is the
\* aggregate error.
C14_StrategyFailureAbsorbed ==
    /\ Len(raised) = Len(invoked)
    /\ \A i \in 1..Len(raised) :
          raised[i] =>
             /\ reports[i] = None
             /\ i < Len(StrategyOrder) => (Len(invoked) > i \/ pc = "strategy")
    /\ Succeeded => transcript = reports[Len(reports)]
    /\ (pc = "returned" /\ checked.is_available /\ ~Succeeded) =>
          transcript = ErrorText(Msg_NoCaptions)

C14_Witness ==
    /\ Succeeded
    /\ \E i \in 1..(Len(raised) - 1) : raised[i]
    /\ raised[1]
    /\ Source = "scrape"

(***************************************************************************)
(* Properties of get_available_languages, checked under LanguagesSpec.     *)
(***************************************************************************)
\* the codes of the entries of a listing that have the type, in order
RECURSIVE CodesOfType(_, _)
CodesOfType(entries, type) ==
    IF entries = <<>> THEN <<>>
    ELSE (IF Head(entries).type = type THEN <<Head(entries).code>> ELSE <<>>)
         \o CodesOfType(Tail(entries), type)

\* the codes of the tracks of a video that have the kind, in backend order
RECURSIVE CodesOfKind(_, _)
CodesOfKind(ts, kind) ==
    IF ts = <<>> THEN <<>>
    ELSE (IF Head(ts).kind = kind THEN <<Head(ts).languageCode>> ELSE <<>>)
         \o CodesOfKind(Tail(ts), kind)

\* C15: get_available_languages never fails outward: a backend error yields
\* the empty sequence; otherwise the result has one entry per track, every
\* manual entry before every generated entry, each group in backend order.
C15_ManualBeforeGenerated ==
    languages.called =>
        LET r == languages.result
        IN  /\ languages.raised => r = <<>>
            /\ ~languages.raised =>
                  /\ Len(r) = Len(tracks)
                  /\ \A i \in 1..Len(r) : r[i].type \in {"manual", "generated"}
                  /\ \A i \in 1..Len(r), j \in 1..Len(r) :
                        (r[i].type = "generated" /\ r[j].type = "manual") => j < i
                  /\ CodesOfType(r, "manual") = CodesOfKind(tracks, "manual")
                  /\ CodesOfType(r, "generated") = CodesOfKind(tracks, "asr")

C15_Witness ==
    /\ languages.called
    /\ ~languages.raised
    /\ Len(tracks) >= 2
    /\ tracks[1].kind = "asr"
    /\ tracks[2].kind = "manual"
    /\ languages.result[1].type = "manual"

(***************************************************************************)
(* Properties of the Data API strategy, checked under Spec.                *)
(***************************************************************************)
\* the Data API strategy was the last one invoked
DataApiJustRan == Len(invoked) = 1 /\ invoked[1] = "youtube_api"

\* C16: when the credential of the Data API is absent, the strategy makes no
\* backend call and reports not available, and get_transcript goes on to the
\* next strategy; when it is present, the strategy lists the caption tracks
\* only after it read the caption flag of the video as true.
C16_NoCredentialNoBackendCall ==
    DataApiJustRan =>
        /\ api_trace # <<>>
        /\ api_trace[1].call = "getenv"
        /\ \A i \in 2..Len(api_trace) : api_trace[i].call # "getenv"
        /\ api_trace[1].result = "absent" =>
              /\ Len(api_trace) = 1
              /\ reports[1] = None
              /\ pc = "strategy"
              /\ transcript = None
        /\ \A i \in 1..Len(api_trace) :
              api_trace[i].call = "captions.list" =>
                 /\ api_trace[1].result = "present"
                 /\ \E j \in 1..(i - 1) :
                       api_trace[j] = [call |-> "videos.list", result |-> "caption_true"]

C16_Witness ==
    /\ DataApiJustRan
    /\ tracks # <<>>
    /\ api_trace[1].result = "absent"
    /\ pc = "strategy"

(***************************************************************************)
(* Properties of the page scrape, checked under ScrapeSpec.                *)
(***************************************************************************)
\* some shape found in the page carries the tracks of the video, and every
\* track has text
PageCarriesTracks ==
    /\ tracks # <<>>
    /\ \A i \in 1..Len(tracks) : TranscriptParts(tracks[i].segments) # <<>>
    /\ \E i \in 1..Len(scrape.resp.page) :
          scrape.resp.page[i] \in {"track_array", "tracks_object", "renderer_object"}

\* C17 as stated: for every page in which at least one of the known shapes
\* carries a non-empty track list, the scrape obtains the tracks: when
\* nothing else fails it hands back a transcript, also when an earlier shape
\* matched without tracks and when the shape is the bare array.
C17_ShapeWithTracksIsUsed ==
    (scrape.called /\ scrape.resp.failure = "none" /\ PageCarriesTracks) =>
        scrape.result # None

C19_ErrorOnlyWhenAcquisitionFailed ==
    (pc = "respond" /\ route = "get_transcript" /\ Succeeded) =>
        /\ response.status # 400
        /\ session[service] # Missing => response.transcript = transcript

\* a route that calls summarize_with_ai has its response, and the session
\* holds no key for the selected service
AnsweredWithoutKey ==
    /\ pc = "respond"
    /\ route \in {"summarize", "get_transcript"}
    /\ session[service] = Missing

\* every provider call of the request carries the key the session holds for
\* the selected service, and is a call of that service
CallsUseStoredKey ==
    \A i \in 1..Len(calls) :
        /\ calls[i].api_key # Missing
        /\ calls[i].api_key = session[service]
        /\ calls[i].shape \in
              {FirstCall(service, Missing).shape, OlderCall(FirstCall(service, Missing)).shape}

====
